---- MODULE Spec2Model ----
(***************************************************************************)
(* Model of lapy/Heat.py: the heat kernel evaluators diagonal and kernel,  *)
(* and the backward Euler heat diffusion solve diffusion.                  *)
(*                                                                         *)
(* Numbers.  Eigenvector entries, eigenvalues and times are drawn from     *)
(* small sets of integers.  The exponentials np.exp(z) of integers z are   *)
(* kept exact: a value of the kernel is an element of Z[e, 1/e], written   *)
(* as the function p |-> coefficient of e^p.  e is transcendental, so two  *)
(* such values are equal as reals exactly when the coefficients agree.     *)
(*                                                                         *)
(* Arrays.  A 2-D array is a sequence of rows, a 1-D array a sequence.     *)
(* The source indexes from 0, sequences from 1: index i of the source is   *)
(* position i + 1 here.                                                    *)
(***************************************************************************)
EXTENDS Integers, Sequences, FiniteSets, TLC

\* ------------------------------------------------------------------ bounds
V == 2          \* vnum: rows of evecs, vertices of the mesh
N == 2          \* evecsnum: columns of evecs, entries of evals
MaxT == 2       \* longest time row vector given to diagonal
MaxX == 1       \* longest index vector x given to diagonal
KernelMaxT == 3 \* longest time row vector given to kernel
MaxVids == 2    \* longest list of seed vertices given to diffusion

EvecVals == {-1, 0}
EvalVals == {0, 1}
TimeVals == {1, 2}          \* times of a valid call
NoTimeVals == {-1, 0}       \* times that are not positive

VARIABLES
    evecs, evals, t, n,     \* arguments of diagonal / kernel
    x, vfix,                \* the index argument of diagonal / of kernel
    h,                      \* what the call produced
    pc                      \* which call has run

heatVars == <<evecs, evals, t, n, x, vfix, h, pc>>

VARIABLES
    geometry,               \* the mesh: vertex count, avg_edge_length(), FEM matrices
    vids, m, aniso, use_cholmod,    \* the other arguments of diffusion
    sksparseInstalled,      \* whether scikit-sparse can be imported
    sksparse, fem, hmat, b0, vfunc, \* the locals of diffusion
    calls,                  \* how often each collaborator has been called
    solved,                 \* the system handed to the factorization's solve
    raised,                 \* the exception that ended the call
    dpc                     \* where the call of diffusion stands

diffusionArgs == <<geometry, vids, m, aniso, use_cholmod, sksparseInstalled>>

diffusionVars == <<diffusionArgs, sksparse, fem, hmat, b0, vfunc, calls, solved, raised, dpc>>

vars == <<heatVars, diffusionVars>>

\* ------------------------------------------------------------ exact reals
Abs(i) == IF i < 0 THEN -i ELSE i

SetMax(S) == CHOOSE a \in S : \A b \in S : b <= a

ExpBound == SetMax({Abs(l * s) : l \in EvalVals, s \in TimeVals \cup NoTimeVals})

Exps == -ExpBound .. ExpBound

RZero == [p \in Exps |-> 0]

RAdd(a, b) == [p \in Exps |-> a[p] + b[p]]

RScale(c, a) == [p \in Exps |-> c * a[p]]

\* np.exp(z) for an integer z: the monomial e^z
RExp(z) == [p \in Exps |-> IF p = z THEN 1 ELSE 0]

RECURSIVE RSum(_)
RSum(s) == IF s = <<>> THEN RZero ELSE RAdd(Head(s), RSum(Tail(s)))

RECURSIVE ISum(_)
ISum(s) == IF s = <<>> THEN 0 ELSE Head(s) + ISum(Tail(s))

RSub(a, b) == RAdd(a, RScale(-1, b))

RECURSIVE Pow(_, _)
Pow(b, k) == IF k = 0 THEN 1 ELSE b * Pow(b, k - 1)

\* 27/10 < e < 28/10
EBound == [lo |-> 27, hi |-> 28, den |-> 10]

\* a * e^ExpBound * den^(2 ExpBound) lies between RLower(a) and RUpper(a)
RLower(a) ==
    ISum([k \in 1..(2 * ExpBound + 1) |->
        LET c == a[k - 1 - ExpBound]
        IN  c * Pow(IF c > 0 THEN EBound.lo ELSE EBound.hi, k - 1)
              * Pow(EBound.den, 2 * ExpBound - (k - 1))])

RUpper(a) ==
    ISum([k \in 1..(2 * ExpBound + 1) |->
        LET c == a[k - 1 - ExpBound]
        IN  c * Pow(IF c > 0 THEN EBound.hi ELSE EBound.lo, k - 1)
              * Pow(EBound.den, 2 * ExpBound - (k - 1))])

\* the sign of the real a: 1, 0, -1, or "unknown" when the bounds on e
\* do not settle it
RSign(a) ==
    IF a = RZero THEN 0
    ELSE IF RLower(a) > 0 THEN 1
    ELSE IF RUpper(a) < 0 THEN -1
    ELSE "unknown"

\* ------------------------------------------------------------ numpy arrays
Rows(A) == Len(A)

Cols(A) == IF Len(A) = 0 THEN 0 ELSE Len(A[1])

\* the stop of the slice 0:stop, clipped to the axis as Python slicing does
SliceEnd(stop, len) == IF stop > len THEN len ELSE stop

\* A[idx, 0:stop] with idx a 1-D integer array: one row per entry of idx
TakeRows(A, idx, stop) ==
    [i \in 1..Len(idx) |-> [j \in 1..SliceEnd(stop, Cols(A)) |-> A[idx[i] + 1][j]]]

\* A[:, 0:stop]
AllRows(A, stop) ==
    [i \in 1..Rows(A) |-> [j \in 1..SliceEnd(stop, Cols(A)) |-> A[i][j]]]

\* A[i, 0:stop] with i a single index: a 1-D array
OneRow(A, i, stop) == [j \in 1..SliceEnd(stop, Cols(A)) |-> A[i + 1][j]]

\* A[0:stop]
HeadRows(A, stop) == [i \in 1..SliceEnd(stop, Rows(A)) |-> A[i]]

\* np.matmul accepts (a x b) @ (c x d) only when b = c
MatMulOK(A, B) == Cols(A) = Rows(B)

\* np.matmul of two integer matrices
IMatMul(A, B) ==
    [i \in 1..Rows(A) |-> [k \in 1..Cols(B) |->
        ISum([j \in 1..Cols(A) |-> A[i][j] * B[j][k]])]]

\* np.matmul of an integer matrix and a matrix of exact reals
IRMatMul(A, B) ==
    [i \in 1..Rows(A) |-> [k \in 1..Cols(B) |->
        RSum([j \in 1..Cols(A) |-> RScale(A[i][j], B[j][k])])]]

\* unary minus
INeg(A) == [i \in 1..Rows(A) |-> [j \in 1..Cols(A) |-> -A[i][j]]]

\* np.exp, elementwise
ExpM(A) == [i \in 1..Rows(A) |-> [j \in 1..Cols(A) |-> RExp(A[i][j])]]

\* A * B for two integer arrays of the same shape
IMul(A, B) == [i \in 1..Rows(A) |-> [j \in 1..Cols(A) |-> A[i][j] * B[i][j]]]

\* numpy broadcasting of a 2-D array (r x c) with a 1-D array of length l,
\* which counts as (1 x l): the trailing axes must agree or one of them be 1
BroadcastOK(E, w) == Cols(E) = Len(w) \/ Cols(E) = 1 \/ Len(w) = 1

\* E * w for a 2-D array of reals and a 1-D integer array, broadcast
RBroadcastMul(E, w) ==
    LET c == IF Cols(E) >= Len(w) THEN Cols(E) ELSE Len(w)
    IN  [i \in 1..Rows(E) |-> [j \in 1..c |->
            RScale(w[IF Len(w) = 1 THEN 1 ELSE j],
                   E[i][IF Cols(E) = 1 THEN 1 ELSE j])]]

Ok(M) == [status |-> "ok", val |-> M]

ValueError == [status |-> "ValueError"]

NotCalled == [status |-> "none"]

\* ------------------------------------------------------- Kernel Evaluator
\* diagonal with the squaring of the eigenvector entries left out
diagonalUnsquared(t_, x_, evecs_, evals_, n_) ==
    LET sel == TakeRows(evecs_, x_, n_)
        lam == HeadRows(evals_, n_)
    IN  IF ~MatMulOK(lam, t_) THEN ValueError
        ELSE LET E == ExpM(INeg(IMatMul(lam, t_)))
             IN  IF ~MatMulOK(sel, E) THEN ValueError
                 ELSE Ok(IRMatMul(sel, E))

\* diagonal with the minus sign of the exponent left out
diagonalGrowing(t_, x_, evecs_, evals_, n_) ==
    LET sel == TakeRows(evecs_, x_, n_)
        lam == HeadRows(evals_, n_)
    IN  IF ~MatMulOK(lam, t_) THEN ValueError
        ELSE LET E == ExpM(IMatMul(lam, t_))
                 sq == IMul(sel, sel)
             IN  IF ~MatMulOK(sq, E) THEN ValueError
                 ELSE Ok(IRMatMul(sq, E))

\* h = np.matmul(evecs[x, 0:n] * evecs[x, 0:n], np.exp(-np.matmul(evals[0:n], t)))
diagonal(t_, x_, evecs_, evals_, n_) ==
    LET sel == TakeRows(evecs_, x_, n_)
        lam == HeadRows(evals_, n_)
    IN  IF ~MatMulOK(lam, t_) THEN ValueError
        ELSE LET E == ExpM(INeg(IMatMul(lam, t_)))
                 sq == IMul(sel, sel)
             IN  IF ~MatMulOK(sq, E) THEN ValueError
                 ELSE Ok(IRMatMul(sq, E))

\* h = np.matmul(evecs[:, 0:n], (np.exp(np.matmul(-evals[0:n], t)) * evecs[vfix, 0:n]))
kernel(t_, vfix_, evecs_, evals_, n_) ==
    LET lam == INeg(HeadRows(evals_, n_))
        w == OneRow(evecs_, vfix_, n_)
        A == AllRows(evecs_, n_)
    IN  IF ~MatMulOK(lam, t_) THEN ValueError
        ELSE LET E == ExpM(IMatMul(lam, t_))
             IN  IF ~BroadcastOK(E, w) THEN ValueError
                 ELSE LET P == RBroadcastMul(E, w)
                      IN  IF ~MatMulOK(A, P) THEN ValueError
                          ELSE Ok(IRMatMul(A, P))

\* --------------------------------------------------------------- inputs
Vertices == 0 .. V - 1

EvecMats == [1..V -> [1..N -> EvecVals]]

Ascending(s) == \A i, j \in DOMAIN s : i < j => s[i] <= s[j]

\* eigenvalues, ascending, as a column vector (N x 1)
EvalCols == {[i \in 1..N |-> <<s[i]>>] : s \in {u \in [1..N -> EvalVals] : Ascending(u)}}

\* time values as a row vector (1 x T), 1 <= T <= maxT
TimeRows(maxT, vals) == {<<s>> : s \in UNION {[1..L -> vals] : L \in 1..maxT}}

IndexVectors == UNION {[1..L -> Vertices] : L \in 1..MaxX}

None == "None"

\* a local that has not been assigned, a result that was not returned
Unset == <<>>

NoCalls == [Solver |-> 0, avg_edge_length |-> 0, cholesky |-> 0, splu |-> 0]

\* no call of diffusion is made
DiffusionIdle ==
    /\ geometry = Unset /\ vids = <<>> /\ m = 1 /\ aniso = None
    /\ use_cholmod = FALSE /\ sksparseInstalled = FALSE
    /\ sksparse = None /\ fem = Unset /\ hmat = Unset /\ b0 = Unset /\ vfunc = Unset
    /\ calls = NoCalls /\ solved = Unset /\ raised = None /\ dpc = "idle"

\* no call of diagonal or kernel is made
HeatIdle ==
    /\ evecs = <<>> /\ evals = <<>> /\ t = <<<<>>>> /\ n = 1
    /\ x = <<>> /\ vfix = 0 /\ h = [status |-> "none"] /\ pc = "idle"

InitHeat(maxT, maxN, timeVals) ==
    /\ DiffusionIdle
    /\ evecs \in EvecMats
    /\ evals \in EvalCols
    /\ t \in TimeRows(maxT, timeVals)
    /\ n \in 1..maxN
    /\ x = <<>>
    /\ vfix = 0
    /\ h = NotCalled
    /\ pc = "start"

CallDiagonal ==
    /\ pc = "start"
    /\ \E x_ \in IndexVectors :
        /\ x' = x_
        /\ h' = diagonal(t, x_, evecs, evals, n)
    /\ pc' = "diagonal"
    /\ UNCHANGED <<evecs, evals, t, n, vfix, diffusionVars>>

CallKernel ==
    /\ pc = "start"
    /\ \E vfix_ \in Vertices :
        /\ vfix' = vfix_
        /\ h' = kernel(t, vfix_, evecs, evals, n)
    /\ pc' = "kernel"
    /\ UNCHANGED <<evecs, evals, t, n, x, diffusionVars>>

InitDiagonal == InitHeat(MaxT, N, TimeVals)

NextDiagonal == CallDiagonal

SpecDiagonal == InitDiagonal /\ [][NextDiagonal]_vars

InitKernel == InitHeat(KernelMaxT, N + 1, TimeVals)

NextKernel == CallDiagonal \/ CallKernel

SpecKernel == InitKernel /\ [][NextKernel]_vars

\* ------------------------------------------------------- Diffusion Solver
\* determinant, by expansion along the first row
RECURSIVE Det(_)
Det(M) ==
    IF Len(M) = 0 THEN 1
    ELSE LET Minor(c) == [i \in 1..Len(M) - 1 |-> [j \in 1..Len(M) - 1 |->
                             M[i + 1][IF j < c THEN j ELSE j + 1]]]
         IN  ISum([c \in 1..Len(M) |->
                 (IF c % 2 = 1 THEN 1 ELSE -1) * M[1][c] * Det(Minor(c))])

Leading(M, k) == [i \in 1..k |-> [j \in 1..k |-> M[i][j]]]

\* scipy.sparse.linalg.splu factorizes unless the matrix is exactly singular
LUFactorizes(H) == Det(H) # 0

\* sksparse.cholmod.cholesky factorizes a symmetric positive definite matrix
CholeskyFactorizes(H) == \A k \in 1..Len(H) : Det(Leading(H, k)) > 0

\* np.float32 of an integer-valued float: a 24 bit significand, ties to even
Float32(v) ==
    IF Abs(v) <= Pow(2, 24) THEN v
    ELSE LET k == CHOOSE s \in 1..8 : Abs(v) < Pow(2, 24 + s) /\ Abs(v) >= Pow(2, 23 + s)
             u == Pow(2, k)
             q == Abs(v) \div u
             r == Abs(v) % u
             up == 2 * r > u \/ (2 * r = u /\ q % 2 = 1)
             a == (IF up THEN q + 1 ELSE q) * u
         IN  IF v < 0 THEN -a ELSE a

\* the evolution time with the edge length not squared
EvolutionTimeLinear(m_, avg) == m_ * avg

\* t = m * geometry.avg_edge_length() ** 2
EvolutionTime(m_, avg) == m_ * avg * avg

\* hmat = fem.mass + t * fem.stiffness
BackwardEuler(mass, tt, stiffness) ==
    [i \in 1..Len(mass) |-> [j \in 1..Len(mass) |->
        mass[i][j] + tt * stiffness[i][j]]]

\* b0 = np.zeros((nv,)); b0[np.array(vids)] = 1.0
SourceVector(nv, vids_) ==
    [i \in 1..nv |-> IF \E k \in 1..Len(vids_) : vids_[k] + 1 = i THEN 1 ELSE 0]

\* Solver(geometry, lump=True, aniso=aniso): the FEM matrices of the mesh
Solver(geometry_, lump, aniso_) ==
    [geometry |-> geometry_, lump |-> lump, aniso |-> aniso_,
     mass |-> IF lump THEN geometry_.lumped ELSE geometry_.consistent,
     stiffness |-> geometry_.stiffness[aniso_]]

\* import_optional_dependency("sksparse", raise_error=True)
ImportOptionalDependency(installed) ==
    IF installed THEN [status |-> "ok", val |-> "sksparse"]
    ELSE [status |-> "ImportError"]

Bump(c, name) == [c EXCEPT ![name] = @ + 1]

\* the import of sksparse placed after the construction of the Solver
DiffusionImportLate ==
    /\ dpc = "entry"
    /\ fem' = Solver(geometry, TRUE, aniso)
    /\ calls' = Bump(calls, "Solver")
    /\ IF use_cholmod
       THEN LET mod == ImportOptionalDependency(sksparseInstalled)
            IN  IF mod.status = "ok"
                THEN sksparse' = mod.val /\ raised' = raised /\ dpc' = "assemble"
                ELSE sksparse' = sksparse /\ raised' = mod.status /\ dpc' = "raised"
       ELSE sksparse' = None /\ raised' = raised /\ dpc' = "assemble"
    /\ UNCHANGED <<heatVars, diffusionArgs, hmat, b0, vfunc, solved>>

\* lines 97-101
DiffusionImport ==
    /\ dpc = "entry"
    /\ IF use_cholmod
       THEN LET mod == ImportOptionalDependency(sksparseInstalled)
            IN  IF mod.status = "ok"
                THEN sksparse' = mod.val /\ raised' = raised /\ dpc' = "assemble"
                ELSE sksparse' = sksparse /\ raised' = mod.status /\ dpc' = "raised"
       ELSE sksparse' = None /\ raised' = raised /\ dpc' = "assemble"
    /\ UNCHANGED <<heatVars, diffusionArgs, fem, hmat, b0, vfunc, calls, solved>>

\* lines 103-108
DiffusionAssemble ==
    /\ dpc = "assemble"
    /\ LET fem_ == Solver(geometry, TRUE, aniso)
           tt == EvolutionTime(m, geometry.avg)
       IN  /\ fem' = fem_
           /\ hmat' = BackwardEuler(fem_.mass, tt, fem_.stiffness)
    /\ calls' = Bump(Bump(calls, "Solver"), "avg_edge_length")
    /\ dpc' = "source"
    /\ UNCHANGED <<heatVars, diffusionArgs, sksparse, b0, vfunc, solved, raised>>

\* the source vector built behind a check that rejects an empty vids
DiffusionSourceChecked ==
    /\ dpc = "source"
    /\ IF vids.idx = <<>>
       THEN b0' = b0 /\ raised' = "ValueError" /\ dpc' = "raised"
       ELSE b0' = SourceVector(geometry.nv, vids.idx) /\ raised' = raised /\ dpc' = "factorize"
    /\ UNCHANGED <<heatVars, diffusionArgs, sksparse, fem, hmat, vfunc, calls, solved>>

\* lines 110-111: np.array of an empty list has a float dtype, and an array
\* of floats is no index
DiffusionSource ==
    /\ dpc = "source"
    /\ IF vids.idx = <<>> /\ ~vids.intArray
       THEN b0' = [i \in 1..geometry.nv |-> 0] /\ raised' = "IndexError" /\ dpc' = "raised"
       ELSE b0' = SourceVector(geometry.nv, vids.idx) /\ raised' = raised /\ dpc' = "factorize"
    /\ UNCHANGED <<heatVars, diffusionArgs, sksparse, fem, hmat, vfunc, calls, solved>>

\* the factorization falling back to LU when Cholesky fails
DiffusionFactorizeFallback ==
    /\ dpc = "factorize"
    /\ IF use_cholmod /\ CholeskyFactorizes(hmat)
       THEN calls' = Bump(calls, "cholesky") /\ raised' = raised /\ dpc' = "solve"
       ELSE /\ calls' = IF use_cholmod THEN Bump(Bump(calls, "cholesky"), "splu")
                        ELSE Bump(calls, "splu")
            /\ IF LUFactorizes(hmat)
               THEN raised' = raised /\ dpc' = "solve"
               ELSE raised' = "RuntimeError" /\ dpc' = "raised"
    /\ UNCHANGED <<heatVars, diffusionArgs, sksparse, fem, hmat, b0, vfunc, solved>>

\* line 116 or line 122
DiffusionFactorize ==
    /\ dpc = "factorize"
    /\ IF use_cholmod
       THEN /\ calls' = Bump(calls, "cholesky")
            /\ IF CholeskyFactorizes(hmat)
               THEN raised' = raised /\ dpc' = "solve"
               ELSE raised' = "CholmodNotPositiveDefiniteError" /\ dpc' = "raised"
       ELSE /\ calls' = Bump(calls, "splu")
            /\ IF LUFactorizes(hmat)
               THEN raised' = raised /\ dpc' = "solve"
               ELSE raised' = "RuntimeError" /\ dpc' = "raised"
    /\ UNCHANGED <<heatVars, diffusionArgs, sksparse, fem, hmat, b0, vfunc, solved>>

\* line 117 or line 123, and the return
DiffusionSolve ==
    /\ dpc = "solve"
    /\ solved' = IF use_cholmod
                 THEN [by |-> "cholesky", H |-> hmat, b |-> b0]
                 ELSE [by |-> "lu", H |-> hmat, b |-> [i \in 1..Len(b0) |-> Float32(b0[i])]]
    /\ vfunc' = [solves |-> solved']
    /\ dpc' = "returned"
    /\ UNCHANGED <<heatVars, diffusionArgs, sksparse, fem, hmat, b0, calls, raised>>

MVals == {-1, 0, 1}
AvgVals == {0, 1, 2}
MassVals == {1, 2}
WeightVals == {0, 1}
AnisoVals == {None, "aniso"}

\* lumped mass matrices: diagonal, positive
LumpedMass == {[i \in 1..V |-> [j \in 1..V |-> IF i = j THEN d[i] ELSE 0]] :
                  d \in [1..V -> MassVals]}

\* stiffness matrices: the graph Laplacian of symmetric edge weights
Stiffness ==
    {[i \in 1..V |-> [j \in 1..V |->
        IF i = j THEN ISum([k \in 1..V |-> IF k = i THEN 0 ELSE w[<<i, k>>]])
        ELSE -w[<<i, j>>]]] :
     w \in {u \in [(1..V) \X (1..V) -> WeightVals] :
               \A i, j \in 1..V : u[<<i, j>>] = u[<<j, i>>] /\ u[<<i, i>>] = 0}}

Geometries ==
    {[nv |-> V, avg |-> a, lumped |-> ml,
      consistent |-> [i \in 1..V |-> [j \in 1..V |-> IF i = j THEN ml[i][i] ELSE 1]],
      stiffness |-> [an \in AnisoVals |-> IF an = None THEN st ELSE BackwardEuler(st, 1, st)]] :
     a \in AvgVals, ml \in LumpedMass, st \in Stiffness}

VidsArgs ==
    {[idx |-> s, intArray |-> b] :
        s \in UNION {[1..L -> Vertices] : L \in 0..MaxVids}, b \in BOOLEAN}

InitDiffusion ==
    /\ HeatIdle
    /\ geometry \in Geometries
    /\ vids \in {v \in VidsArgs : v.idx # <<>> => ~v.intArray}
    /\ m \in MVals
    /\ aniso \in AnisoVals
    /\ use_cholmod \in BOOLEAN
    /\ sksparseInstalled \in BOOLEAN
    /\ sksparse = None /\ fem = Unset /\ hmat = Unset /\ b0 = Unset /\ vfunc = Unset
    /\ calls = NoCalls /\ solved = Unset /\ raised = None
    /\ dpc = "entry"

NextDiffusion ==
    \/ DiffusionImport
    \/ DiffusionAssemble
    \/ DiffusionSource
    \/ DiffusionFactorize
    \/ DiffusionSolve

SpecDiffusion == InitDiffusion /\ [][NextDiffusion]_vars

\* one call of diagonal, of kernel or of diffusion
InitDomain == InitHeat(MaxT, N, NoTimeVals) \/ InitDiffusion

NextDomain == CallDiagonal \/ CallKernel \/ NextDiffusion

SpecDomain == InitDomain /\ [][NextDomain]_vars

\* ------------------------------------------------------------- the claims
\* what the caller passed, read with the source's 0-based indices
Evec(p, j) == evecs[p + 1][j + 1]

Eval(j) == evals[j + 1][1]

Time(k) == t[1][k + 1]

T == Len(t[1])

\* entry (i, k) of a returned matrix, 0-based
Entry(M, i, k) == M[i + 1][k + 1]

HasShape(M, r, c) == Len(M) = r /\ \A i \in 1..r : Len(M[i]) = c

\* sum over j = 0..n-1 of evecs[p,j]^2 * exp(-evals[j]*t[k])
DiagonalSum(p, k) ==
    RSum([j \in 1..n |-> RScale(Evec(p, j - 1) * Evec(p, j - 1),
                                RExp(-(Eval(j - 1) * Time(k))))])

Dissipates(p) == \E j \in 0..n - 1 : Eval(j) > 0 /\ Evec(p, j) # 0

\* C9 as stated: with some positive eigenvalue in evals, t1 < t2 makes every
\* entry of diagonal at t2 strictly smaller than the entry at t1.
DiagonalStrictDecay ==
    (pc = "diagonal" /\ h.status = "ok" /\ \E j \in 0..N - 1 : Eval(j) > 0) =>
        \A i \in 0..Len(x) - 1 : \A k1, k2 \in 0..T - 1 :
            Time(k1) < Time(k2) =>
                RSign(RSub(Entry(h.val, i, k1), Entry(h.val, i, k2))) = 1

\* C9 amended: t1 < t2 makes the entry at t2 strictly smaller than the entry
\* at t1 exactly for the vertices with a nonzero eigenvector entry on a
\* positive eigenvalue among the first n; for every other vertex they are equal.
DiagonalDecay ==
    (pc = "diagonal" /\ h.status = "ok") =>
        \A i \in 0..Len(x) - 1 : \A k1, k2 \in 0..T - 1 :
            Time(k1) < Time(k2) =>
                RSign(RSub(Entry(h.val, i, k1), Entry(h.val, i, k2)))
                    = IF Dissipates(x[i + 1]) THEN 1 ELSE 0

\* two times t1 < t2 and a queried vertex that loses heat on one eigenpair
\* and keeps it on another
DiagonalDecayWitness ==
    /\ pc = "diagonal" /\ h.status = "ok"
    /\ \E k1, k2 \in 0..T - 1 : Time(k1) < Time(k2)
    /\ Dissipates(x[1])
    /\ \E j \in 0..n - 1 : Eval(j) = 0 /\ Evec(x[1], j) # 0

\* ---------------------------------------------------- claims on diffusion
Ended == dpc \in {"returned", "raised"}

FactorizationErrors == {"CholmodNotPositiveDefiniteError", "RuntimeError"}

\* mass + m * avg_edge_length^2 * stiffness, from the arguments of the call
ExpectedH ==
    [i \in 1..geometry.nv |-> [j \in 1..geometry.nv |->
        geometry.lumped[i][j]
          + m * geometry.avg * geometry.avg * geometry.stiffness[aniso][i][j]]]

\* 1 at the indices listed in vids, 0 elsewhere, from the arguments of the call
ExpectedB ==
    [i \in 1..geometry.nv |-> IF (i - 1) \in {vids.idx[k] : k \in 1..Len(vids.idx)} THEN 1 ELSE 0]

\* C1: a call with use_cholmod=True while sksparse cannot be imported ends
\* with the import error before the Solver is built, avg_edge_length() is
\* called or a factorization is started.
ImportFailsBeforeAssembly ==
    (use_cholmod /\ ~sksparseInstalled /\ dpc \notin {"idle", "entry"}) =>
        /\ dpc = "raised" /\ raised = "ImportError"
        /\ calls = NoCalls
        /\ fem = Unset /\ hmat = Unset /\ b0 = Unset /\ solved = Unset /\ vfunc = Unset

ImportFailsBeforeAssemblyWitness ==
    use_cholmod /\ ~sksparseInstalled /\ dpc = "raised" /\ raised = "ImportError"

\* C6: only the strategy use_cholmod names is ever factorized, at most once;
\* a failed factorization ends the call with its error, no field is returned
\* and the other strategy is not tried.
OneStrategyNoFallback ==
    dpc # "idle" =>
        /\ calls.cholesky + calls.splu <= 1
        /\ use_cholmod => calls.splu = 0
        /\ ~use_cholmod => calls.cholesky = 0
        /\ raised \in FactorizationErrors =>
              dpc = "raised" /\ vfunc = Unset /\ solved = Unset
        /\ dpc = "returned" =>
              /\ solved.by = IF use_cholmod THEN "cholesky" ELSE "lu"
              /\ calls[IF use_cholmod THEN "cholesky" ELSE "splu"] = 1

\* Cholesky has failed on a matrix that LU would have factorized
OneStrategyNoFallbackWitness ==
    /\ dpc = "raised" /\ raised = "CholmodNotPositiveDefiniteError"
    /\ calls.cholesky = 1 /\ LUFactorizes(hmat)

\* C8: the system solved is H = mass + m * avg_edge_length^2 * stiffness with
\* the matrices of one Solver built for the geometry with lump=True and the
\* caller's aniso, and the right-hand side is the indicator vector of vids,
\* on the Cholesky and on the LU path.
BackwardEulerSystem ==
    /\ dpc \in {"source", "factorize", "solve", "returned"} =>
          /\ calls.Solver = 1 /\ calls.avg_edge_length = 1
          /\ fem.geometry = geometry /\ fem.lump = TRUE /\ fem.aniso = aniso
          /\ fem.mass = geometry.lumped /\ fem.stiffness = geometry.stiffness[aniso]
          /\ hmat = ExpectedH
    /\ dpc = "returned" =>
          /\ solved.H = ExpectedH
          /\ solved.b = ExpectedB
          /\ vfunc = [solves |-> solved]

\* an LU solve with a repeated seed vertex, a time other than 0 and 1 and a
\* stiffness that is not zero
BackwardEulerSystemWitness ==
    /\ dpc = "returned" /\ ~use_cholmod
    /\ \E k1, k2 \in 1..Len(vids.idx) : k1 # k2 /\ vids.idx[k1] = vids.idx[k2]
    /\ \E i \in 1..geometry.nv : ExpectedB[i] = 0
    /\ m * geometry.avg * geometry.avg > 1
    /\ fem.stiffness[1][1] # 0 /\ aniso # None

DomainViolated == m <= 0 \/ geometry.avg = 0 \/ vids.idx = <<>>

\* C7 as stated: a diffusion call with m <= 0, a zero average edge length or
\* an empty vids ends with a domain error and returns no field; diagonal and
\* kernel with a zero or negative time end with a domain error.
DomainErrorsRaised ==
    /\ (Ended /\ DomainViolated) => (raised = "DomainError" /\ vfunc = Unset)
    /\ (pc \in {"diagonal", "kernel"} /\ \E k \in 0..T - 1 : Time(k) <= 0) =>
          h.status = "DomainError"

\* sum over j = 0..n-1 of exp(-evals[j]*t[k]) * evecs[p,j] * evecs[q,j]
KernelSum(p, q, k) ==
    RSum([j \in 1..n |-> RScale(Evec(p, j - 1) * Evec(q, j - 1),
                                RExp(-(Eval(j - 1) * Time(k))))])

\* C7 amended: no argument is checked against its domain.  A diffusion call
\* with m <= 0, a zero average edge length or an empty vids ends as any other
\* call does: with the import error when sksparse is asked for and missing,
\* else with an index error when vids is an empty list, else with the field
\* solving (mass + m * avg^2 * stiffness) x = b0 when the chosen factorization
\* accepts that matrix and with the factorization's error when not.  diagonal
\* with a zero time returns the matrix of its sums, and so does kernel for n = 1.
NoDomainCheck ==
    /\ (Ended /\ DomainViolated) =>
          IF use_cholmod /\ ~sksparseInstalled
          THEN raised = "ImportError" /\ vfunc = Unset
          ELSE IF vids.idx = <<>> /\ ~vids.intArray
          THEN raised = "IndexError" /\ vfunc = Unset
          ELSE IF use_cholmod /\ CholeskyFactorizes(ExpectedH)
          THEN raised = None /\ vfunc = [solves |-> [by |-> "cholesky", H |-> ExpectedH, b |-> ExpectedB]]
          ELSE IF ~use_cholmod /\ LUFactorizes(ExpectedH)
          THEN raised = None /\ vfunc = [solves |-> [by |-> "lu", H |-> ExpectedH, b |-> ExpectedB]]
          ELSE raised \in FactorizationErrors /\ vfunc = Unset
    /\ (pc = "diagonal" /\ \E k \in 0..T - 1 : Time(k) <= 0) =>
          /\ h.status = "ok"
          /\ HasShape(h.val, Len(x), T)
          /\ \A i \in 0..Len(x) - 1 : \A k \in 0..T - 1 :
                Entry(h.val, i, k) = DiagonalSum(x[i + 1], k)
    /\ (pc = "kernel" /\ n = 1 /\ \E k \in 0..T - 1 : Time(k) <= 0) =>
          /\ h.status = "ok"
          /\ HasShape(h.val, V, T)
          /\ \A p \in 0..V - 1 : \A k \in 0..T - 1 :
                Entry(h.val, p, k) = KernelSum(p, vfix, k)

\* a field returned for m <= 0, a zero average edge length and no seed vertex
NoDomainCheckWitness ==
    /\ dpc = "returned" /\ vfunc # Unset
    /\ m <= 0 /\ geometry.avg = 0 /\ vids.idx = <<>>

\* ------------------------------------------------------- claims on kernel
\* C2: for 1 <= n <= N, kernel returns a matrix with V rows and len(t) columns
\* whose entry (p, k) is the sum over j < n of
\* exp(-evals[j]*t[k]) * evecs[p,j] * evecs[vfix,j].
KernelIsTruncatedSum ==
    (pc = "kernel" /\ n <= N) =>
        /\ h.status = "ok"
        /\ HasShape(h.val, V, T)
        /\ \A p \in 0..V - 1 : \A k \in 0..T - 1 :
              Entry(h.val, p, k) = KernelSum(p, vfix, k)

\* C4: entry (i, k) of diagonal(t, x, evecs, evals, n) equals entry (x[i], k)
\* of kernel(t, x[i], evecs, evals, n).
DiagonalConsistency ==
    (pc = "diagonal" /\ n <= N) =>
        \A i \in 0..Len(x) - 1 :
            LET col == kernel(t, x[i + 1], evecs, evals, n)
            IN  /\ h.status = "ok" /\ col.status = "ok"
                /\ HasShape(col.val, V, T)
                /\ \A k \in 0..T - 1 :
                      Entry(h.val, i, k) = Entry(col.val, x[i + 1], k)

\* C5: diagonal and kernel called with n > N fail with a shape mismatch and
\* return no matrix.
TruncationOrderChecked ==
    (pc \in {"diagonal", "kernel"} /\ n > N) => h.status = "ValueError"

\* C10: with n = N both diagonal and kernel complete without error; with
\* n = 1 both complete and return the values of the first eigenpair alone.
BoundaryOrders ==
    /\ (pc \in {"diagonal", "kernel"} /\ (n = N \/ n = 1)) => h.status = "ok"
    /\ (pc = "diagonal" /\ n = 1) =>
          \A i \in 0..Len(x) - 1 : \A k \in 0..T - 1 :
              Entry(h.val, i, k)
                = RScale(Evec(x[i + 1], 0) * Evec(x[i + 1], 0), RExp(-(Eval(0) * Time(k))))
    /\ (pc = "kernel" /\ n = 1) =>
          \A p \in 0..V - 1 : \A k \in 0..T - 1 :
              Entry(h.val, p, k)
                = RScale(Evec(p, 0) * Evec(vfix, 0), RExp(-(Eval(0) * Time(k))))

====
